---- MODULE Spec2Model ----
(***************************************************************************)
(* v4l2loopback-rs: the binary record codec (DeviceConfig <->              *)
(* v4l2_loopback_config), the control channel (open_control_device) and    *)
(* the three device lifecycle operations (add_device, delete_device,       *)
(* query_device) of src/src/lib.rs, run against a model of the             *)
(* v4l2loopback driver.                                                    *)
(*                                                                         *)
(* Bytes are integers 0..255.  A Rust String is the sequence of its bytes  *)
(* (the model's labels are ASCII).  A u32 device number is kept as its two *)
(* 16-bit halves [hi, lo] so that the full 32-bit range, and the values    *)
(* above i32::MAX in particular, are represented exactly.                  *)
(***************************************************************************)
EXTENDS Integers, Sequences, FiniteSets, TLC

\* ------------------------------------------------------------------ bounds

\* Longest label the model draws (the field holds 32 bytes).
MaxLabelLen == 33
\* Number of device numbers the modelled driver can hand out.
MaxDevices == 2
\* Number of file descriptors the process may hold open.
MaxFds == 2

\* --------------------------------------------------------------- constants

\* card_label: [0; 32] and from_raw_parts(.., 32)
FieldLen == 32
\* "Setting this value below 48 as no effets as it is the minimal accepted value."
MinWidthFloor == 48
\* "Setting this value above 8192 as no effets as it is the maximal accepted value."
MaxWidthCeil == 8192
\* "Setting this value below 32 as no effets as it is the minimal accepted value."
MinHeightFloor == 32
\* "Setting this value above 8192 as no effets as it is the maximal accepted value."
MaxHeightCeil == 8192

Two16 == 2 ^ 16
Two15 == 2 ^ 15

\* ------------------------------------------------------------ u32 and i32

\* A u32 as its halves.
U32(hi, lo) == [hi |-> hi, lo |-> lo]

\* i32::try_from(u32): Ok exactly for the values up to i32::MAX.
i32_try_from(n) ==
    IF n.hi < Two15 THEN [ok |-> TRUE, val |-> n.hi * Two16 + n.lo]
    ELSE [ok |-> FALSE, val |-> 0]

\* `dev as u32` for an i32 (two's complement reinterpretation).
as_u32(dev) ==
    IF dev >= 0 THEN U32(dev \div Two16, dev % Two16)
    ELSE U32((Two16 - 1) - ((-(dev + 1)) \div Two16), (Two16 - 1) - ((-(dev + 1)) % Two16))

\* Option<u32>
None == [some |-> FALSE, val |-> U32(0, 0)]
Some(n) == [some |-> TRUE, val |-> n]

\* ------------------------------------------------------------------ bytes

Zeros(n) == [i \in 1..n |-> 0]

HasNul(s) == \E i \in 1..Len(s) : s[i] = 0

\* The bytes of s before its first null byte (all of s when it has none).
UntilNul(s) ==
    LET stops == {i \in 1..Len(s) : s[i] = 0}
        first == IF stops = {} THEN Len(s) + 1
                 ELSE CHOOSE i \in stops : \A j \in stops : i <= j
    IN  SubSeq(s, 1, first - 1)

\* The four little-endian bytes of a 32-bit value (x >= 0, or an i32 in
\* two's complement).
LE4(x) ==
    IF x >= 0
    THEN <<x % 256, (x \div 256) % 256, (x \div Two16) % 256, (x \div (256 * Two16)) % 256>>
    ELSE LET y == -(x + 1)
         IN  <<255 - (y % 256), 255 - ((y \div 256) % 256),
               255 - ((y \div Two16) % 256), 255 - ((y \div (256 * Two16)) % 256)>>

\* str::from_utf8 on the model's bytes: ASCII bytes are valid text, and a
\* byte of 128 or more never starts or continues a valid sequence here.
IsUtf8(s) == \A i \in 1..Len(s) : s[i] < 128

\* ------------------------------------------------------------ DeviceConfig

\* pub struct DeviceConfig
DeviceConfig(label, nums) ==
    [label |-> label,
     min_width |-> nums[1], max_width |-> nums[2],
     min_height |-> nums[3], max_height |-> nums[4],
     max_buffers |-> nums[5], max_openers |-> nums[6],
     announce_all_caps |-> nums[7]]

\* #[derive(Default)] for DeviceConfig: the empty label and zeros.
DeviceConfigDefault == DeviceConfig(<<>>, <<0, 0, 0, 0, 0, 0, 0>>)

\* impl Default for v4l2_loopback_config
v4l2_loopback_config_default ==
    [output_nr |-> -1,
     card_label |-> Zeros(FieldLen),
     min_width |-> 0, max_width |-> 0, min_height |-> 0, max_height |-> 0,
     max_buffers |-> 0, max_openers |-> 0, announce_all_caps |-> 0,
     unused |-> 0, debug |-> 0]

\* CString::new: refuses a string with a null byte, else appends the
\* terminator; the buffer it owns is exactly Len(s) + 1 bytes.
CStringNew(s) ==
    IF HasNul(s) THEN [ok |-> FALSE, buf |-> <<>>]
    ELSE [ok |-> TRUE, buf |-> Append(s, 0)]

\* from_raw_parts(ptr, n) on a buffer `buf` followed in memory by `mem`: the
\* n bytes starting at the buffer's first byte.  Past the end of the buffer
\* the read is outside the allocation and yields whatever lies there.
from_raw_parts(buf, mem, n) ==
    [i \in 1..n |-> IF i <= Len(buf) THEN buf[i] ELSE mem[i - Len(buf)]]

\* A mutant of try_into: the window is read at the String's own pointer, so
\* no terminator separates the label from the memory after it.
try_into_noterm(config, mem) ==
    IF HasNul(config.label) THEN [ok |-> FALSE, cfg |-> v4l2_loopback_config_default]
    ELSE [ok |-> TRUE,
          cfg |-> [v4l2_loopback_config_default EXCEPT
                     !.card_label = from_raw_parts(config.label, mem, FieldLen),
                     !.min_width = config.min_width,
                     !.max_width = config.max_width,
                     !.min_height = config.min_height,
                     !.max_height = config.max_height,
                     !.max_buffers = config.max_buffers,
                     !.max_openers = config.max_openers,
                     !.announce_all_caps = config.announce_all_caps]]

\* A mutant of try_into: max_openers is filled from max_buffers.
try_into_swapped(config, mem) ==
    LET c == CStringNew(config.label)
    IN  IF ~c.ok THEN [ok |-> FALSE, cfg |-> v4l2_loopback_config_default]
        ELSE [ok |-> TRUE,
              cfg |-> [v4l2_loopback_config_default EXCEPT
                         !.card_label = from_raw_parts(c.buf, mem, FieldLen),
                         !.min_width = config.min_width,
                         !.max_width = config.max_width,
                         !.min_height = config.min_height,
                         !.max_height = config.max_height,
                         !.max_buffers = config.max_buffers,
                         !.max_openers = config.max_buffers,
                         !.announce_all_caps = config.announce_all_caps]]

\* impl TryInto<ffi::v4l2_loopback_config> for DeviceConfig.  `mem` is the
\* memory that follows the CString's buffer.  Err is NulError.
try_into(config, mem) ==
    LET c == CStringNew(config.label)
    IN  IF ~c.ok THEN [ok |-> FALSE, cfg |-> v4l2_loopback_config_default]
        ELSE [ok |-> TRUE,
              cfg |-> [v4l2_loopback_config_default EXCEPT
                         !.card_label = from_raw_parts(c.buf, mem, FieldLen),
                         !.min_width = config.min_width,
                         !.max_width = config.max_width,
                         !.min_height = config.min_height,
                         !.max_height = config.max_height,
                         !.max_buffers = config.max_buffers,
                         !.max_openers = config.max_openers,
                         !.announce_all_caps = config.announce_all_caps]]

\* The bytes of the record from card_label on, in the layout of the C struct
\* (card_label, min_width, max_width, min_height, max_height, max_buffers,
\* max_openers, debug, announce_all_caps).
StructFromLabel(value) ==
    value.card_label \o LE4(value.min_width) \o LE4(value.max_width)
        \o LE4(value.min_height) \o LE4(value.max_height)
        \o LE4(value.max_buffers) \o LE4(value.max_openers)
        \o LE4(value.debug) \o LE4(value.announce_all_caps)

\* CStr::from_ptr(card_label.as_ptr()): the bytes from the field's first
\* byte up to the first null byte, wherever that one is.
CStrFromPtr(value) == UntilNul(StructFromLabel(value))

\* impl TryFrom<ffi::v4l2_loopback_config> for DeviceConfig.  Err is Utf8Error.
try_from(value) ==
    LET bytes == CStrFromPtr(value)
    IN  IF ~IsUtf8(bytes) THEN [ok |-> FALSE, cfg |-> DeviceConfigDefault]
        ELSE [ok |-> TRUE,
              cfg |-> [label |-> bytes,
                       min_width |-> value.min_width,
                       max_width |-> value.max_width,
                       min_height |-> value.min_height,
                       max_height |-> value.max_height,
                       max_buffers |-> value.max_buffers,
                       max_openers |-> value.max_openers,
                       announce_all_caps |-> value.announce_all_caps]]

\* ------------------------------------------------------------- the driver

\* What the driver picks for max_buffers / max_openers given as <= 0.
DriverDefaultBuffers == 2
DriverDefaultOpeners == 10

\* The generic name the driver gives a device created with an empty label.
GenericLabel(nr) == <<68, 117, 109, 109, 121, 48 + nr>>

Clamp(x, lo, hi) == IF x < lo THEN lo ELSE IF x > hi THEN hi ELSE x

\* The label the driver keeps: the field read as a C string of at most
\* FieldLen - 1 bytes, or the generic name when that is empty.
DriverLabel(card_label, nr) ==
    LET s == UntilNul(card_label)
        t == SubSeq(s, 1, IF Len(s) < FieldLen THEN Len(s) ELSE FieldLen - 1)
    IN  IF t = <<>> THEN GenericLabel(nr) ELSE t

\* The device the driver builds from an add request: dimensions clamped to
\* its floor and ceiling, counts <= 0 replaced by its defaults.
DriverDevice(rec, nr) ==
    [label |-> DriverLabel(rec.card_label, nr),
     min_width |-> Clamp(rec.min_width, MinWidthFloor, MaxWidthCeil),
     max_width |-> Clamp(rec.max_width, MinWidthFloor, MaxWidthCeil),
     min_height |-> Clamp(rec.min_height, MinHeightFloor, MaxHeightCeil),
     max_height |-> Clamp(rec.max_height, MinHeightFloor, MaxHeightCeil),
     max_buffers |-> IF rec.max_buffers <= 0 THEN DriverDefaultBuffers ELSE rec.max_buffers,
     max_openers |-> IF rec.max_openers <= 0 THEN DriverDefaultOpeners ELSE rec.max_openers,
     announce_all_caps |-> rec.announce_all_caps]

FreeNumbers(devs) == (0..(MaxDevices - 1)) \ DOMAIN devs

\* The add request: a negative output_nr asks for the lowest free number, any
\* other asks for that number.  Returns the number, or a negative result when
\* the number is taken or cannot be handed out.
DriverAdd(devs, rec) ==
    LET free == FreeNumbers(devs)
        nr == IF rec.output_nr < 0
              THEN IF free = {} THEN -1
                   ELSE CHOOSE n \in free : \A m \in free : n <= m
              ELSE IF rec.output_nr \in free THEN rec.output_nr ELSE -1
    IN  IF nr < 0 THEN [ret |-> -1, devices |-> devs]
        ELSE [ret |-> nr,
              devices |-> [m \in DOMAIN devs \cup {nr} |->
                             IF m = nr THEN DriverDevice(rec, nr) ELSE devs[m]]]

\* The remove request: a negative result when no such device exists.
DriverRemove(devs, n) ==
    IF n \in DOMAIN devs
    THEN [ret |-> 0, devices |-> [m \in DOMAIN devs \ {n} |-> devs[m]]]
    ELSE [ret |-> -1, devices |-> devs]

\* The query request: fills the record with the device's configuration, or
\* returns a negative result when no such device exists.
DriverQuery(devs, rec) ==
    IF rec.output_nr \in DOMAIN devs
    THEN LET d == devs[rec.output_nr]
         IN  [ret |-> 0,
              cfg |-> [rec EXCEPT
                         !.card_label = d.label \o Zeros(FieldLen - Len(d.label)),
                         !.min_width = d.min_width,
                         !.max_width = d.max_width,
                         !.min_height = d.min_height,
                         !.max_height = d.max_height,
                         !.max_buffers = d.max_buffers,
                         !.max_openers = d.max_openers,
                         !.announce_all_caps = d.announce_all_caps]]
    ELSE [ret |-> -1, cfg |-> rec]

\* ------------------------------------------------------- control channel

\* How opening /dev/v4l2loopback can end.
CtlStates == {"present", "missing", "denied", "broken"}

\* fn open_control_device: Ok(f.into_raw_fd()), or the ControlDeviceError of
\* the open's ErrorKind.  into_raw_fd hands the descriptor over to the caller
\* without closing it.
open_control_device(ctl) ==
    CASE ctl = "present" -> [ok |-> TRUE, err |-> ""]
      [] ctl = "missing" -> [ok |-> FALSE, err |-> "NotFound"]
      [] ctl = "denied" -> [ok |-> FALSE, err |-> "PermissionDenied"]
      [] OTHER -> [ok |-> FALSE, err |-> "Other"]

\* ------------------------------------------------------------------ Error

\* Result<_, Error>: tag is "Ok" or the Error variant; num is the u32 an
\* Ok(u32) or a DeviceNotFound carries, config the DeviceConfig an Ok carries,
\* cause the wrapped error.
Res(tag, num, config, cause) ==
    [tag |-> tag, num |-> num, config |-> config, cause |-> cause]

Err(tag, cause) == Res(tag, U32(0, 0), DeviceConfigDefault, cause)

\* ------------------------------------------------- lifecycle operations
\* Each operation is given its arguments, the memory after the label's
\* buffer (mem), how the open of the control device ends (ctl), whether the
\* ioctl call itself fails with an errno (errno), the driver's devices (devs)
\* and the number of descriptors the process holds (fds).  It returns its
\* Result (res), the driver's devices and the descriptors held when it
\* returns, whether it called the ioctl (sent) and the record it passed (rec).

\* cfg.output_nr = num.map(i32::try_from).map(Result::ok).flatten().unwrap_or(-1)
add_output_nr(num) ==
    IF num.some /\ i32_try_from(num.val).ok THEN i32_try_from(num.val).val ELSE -1

\* A mutant of add_result: the raw result is not tested for being negative.
add_result_unchecked(dev) == Res("Ok", as_u32(dev), DeviceConfigDefault, "")

\* if dev.is_negative() { return Err(Error::DeviceCreationFailed); } Ok(dev as u32)
add_result(dev) ==
    IF dev < 0 THEN Err("DeviceCreationFailed", "")
    ELSE Res("Ok", as_u32(dev), DeviceConfigDefault, "")

\* A mutant of add_device: the control device is opened before the
\* configuration is converted.
add_device_open_first(num, config, mem, ctl, errno, devs, fds) ==
    LET enc == try_into(config, mem)
        cfg == [enc.cfg EXCEPT !.output_nr = add_output_nr(num)]
        fd == open_control_device(ctl)
        io == DriverAdd(devs, cfg)
    IN  IF ~fd.ok
        THEN [res |-> Err("ControlDevice", fd.err), devices |-> devs, fds |-> fds,
              sent |-> FALSE, rec |-> cfg]
        ELSE IF ~enc.ok
        THEN [res |-> Err("LabelConversionError", "NulError"), devices |-> devs,
              fds |-> fds + 1, sent |-> FALSE, rec |-> v4l2_loopback_config_default]
        ELSE IF errno
        THEN [res |-> Err("Ioctl", "Errno"), devices |-> devs, fds |-> fds + 1,
              sent |-> TRUE, rec |-> cfg]
        ELSE [res |-> add_result(io.ret), devices |-> io.devices, fds |-> fds + 1,
              sent |-> TRUE, rec |-> cfg]

\* pub fn add_device(num: Option<u32>, config: DeviceConfig) -> Result<u32, Error>
add_device(num, config, mem, ctl, errno, devs, fds) ==
    LET enc == try_into(config, mem)
        cfg == [enc.cfg EXCEPT !.output_nr = add_output_nr(num)]
        fd == open_control_device(ctl)
        io == DriverAdd(devs, cfg)
    IN  IF ~enc.ok
        THEN [res |-> Err("LabelConversionError", "NulError"), devices |-> devs,
              fds |-> fds, sent |-> FALSE, rec |-> v4l2_loopback_config_default]
        ELSE IF ~fd.ok
        THEN [res |-> Err("ControlDevice", fd.err), devices |-> devs, fds |-> fds,
              sent |-> FALSE, rec |-> cfg]
        ELSE IF errno
        THEN [res |-> Err("Ioctl", "Errno"), devices |-> devs, fds |-> fds + 1,
              sent |-> TRUE, rec |-> cfg]
        ELSE [res |-> add_result(io.ret), devices |-> io.devices, fds |-> fds + 1,
              sent |-> TRUE, rec |-> cfg]

\* A mutant of delete_result: the raw result is not tested for being negative.
delete_result_unchecked(res, device_num) == Res("Ok", U32(0, 0), DeviceConfigDefault, "")

\* if res.is_negative() { return Err(Error::DeviceNotFound(device_num)); } Ok(())
delete_result(res, device_num) ==
    IF res < 0 THEN Res("DeviceNotFound", device_num, DeviceConfigDefault, "")
    ELSE Res("Ok", U32(0, 0), DeviceConfigDefault, "")

\* A mutant of delete_request: the number sent is off by one.
delete_request_off_by_one(converted_num) == converted_num + 1

\* The integer the remove request carries: converted_num itself.
delete_request(converted_num) == converted_num

\* pub fn delete_device(device_num: u32) -> Result<(), Error>
delete_device(device_num, ctl, errno, devs, fds) ==
    LET fd == open_control_device(ctl)
        converted_num == i32_try_from(device_num)
        io == DriverRemove(devs, delete_request(converted_num.val))
        rec == [v4l2_loopback_config_default EXCEPT !.output_nr = converted_num.val]
    IN  IF ~fd.ok
        THEN [res |-> Err("ControlDevice", fd.err), devices |-> devs, fds |-> fds,
              sent |-> FALSE, rec |-> v4l2_loopback_config_default]
        ELSE IF ~converted_num.ok
        THEN [res |-> Err("Other", "TryFromIntError"), devices |-> devs,
              fds |-> fds + 1, sent |-> FALSE, rec |-> v4l2_loopback_config_default]
        ELSE IF errno
        THEN [res |-> Err("Ioctl", "Errno"), devices |-> devs, fds |-> fds + 1,
              sent |-> TRUE, rec |-> rec]
        ELSE [res |-> delete_result(io.ret, device_num), devices |-> io.devices,
              fds |-> fds + 1, sent |-> TRUE, rec |-> rec]

\* The tail of query_device: the negative result, then the decoding.
query_result(res, cfg, device_num) ==
    IF res < 0 THEN Res("DeviceNotFound", device_num, DeviceConfigDefault, "")
    ELSE LET dec == try_from(cfg)
         IN  IF ~dec.ok THEN Err("LabelConversionError", "Utf8Error")
             ELSE Res("Ok", U32(0, 0), dec.cfg, "")

\* pub fn query_device(device_num: u32) -> Result<DeviceConfig, Error>
query_device(device_num, ctl, errno, devs, fds) ==
    LET converted_num == i32_try_from(device_num)
        cfg == [v4l2_loopback_config_default EXCEPT !.output_nr = converted_num.val]
        fd == open_control_device(ctl)
        io == DriverQuery(devs, cfg)
    IN  IF ~converted_num.ok
        THEN [res |-> Err("Other", "TryFromIntError"), devices |-> devs, fds |-> fds,
              sent |-> FALSE, rec |-> v4l2_loopback_config_default]
        ELSE IF ~fd.ok
        THEN [res |-> Err("ControlDevice", fd.err), devices |-> devs, fds |-> fds,
              sent |-> FALSE, rec |-> cfg]
        ELSE IF errno
        THEN [res |-> Err("Ioctl", "Errno"), devices |-> devs, fds |-> fds + 1,
              sent |-> TRUE, rec |-> cfg]
        ELSE [res |-> query_result(io.ret, io.cfg, device_num), devices |-> devs,
              fds |-> fds + 1, sent |-> TRUE, rec |-> io.cfg]

\* ----------------------------------------------------------------- inputs

\* A label of n letters, each position with its own letter.
Label(n) == [i \in 1..n |-> 65 + (i % 26)]

\* A label with a null byte inside.
NulLabel == <<65, 0, 66>>

\* The doc example's numbers, Default's zeros, and numbers outside what the
\* driver accepts.
TestNums == <<100, 4000, 100, 4000, 9, 3, 1>>
ZeroNums == <<0, 0, 0, 0, 0, 0, 0>>
WildNums == <<10, 9000, 10, 9000, -1, -2, 1>>

\* Configurations for the lifecycle operations: the empty label, a short
\* one, one that is a byte too long for the field (with numbers the driver
\* clamps), and one with a null byte.
Configs ==
    {DeviceConfig(Label(0), TestNums), DeviceConfig(Label(1), TestNums),
     DeviceConfig(Label(FieldLen), WildNums), DeviceConfig(NulLabel, TestNums)}

\* Every label length up to the bound, for the codec alone.
CodecLabels == {Label(n) : n \in 0..MaxLabelLen} \cup {NulLabel}

CodecConfigs == {DeviceConfig(l, n) : l \in CodecLabels, n \in {TestNums, ZeroNums, WildNums}}

\* What may lie in memory after the label's buffer: zeros, letters, bytes
\* that are not text.
Memories == {[i \in 1..FieldLen |-> b] : b \in {0, 90, 170}}

\* The memory after the buffer is only read when the 32-byte window is
\* longer than the buffer; the lifecycle operations see zeros or letters.
MemChoices(config) ==
    IF ~HasNul(config.label) /\ Len(config.label) + 1 < FieldLen
    THEN {[i \in 1..FieldLen |-> b] : b \in {0, 90}}
    ELSE {Zeros(FieldLen)}

\* Device numbers: those the driver hands out, and the first u32 past
\* i32::MAX.
DeviceNums == {U32(0, n) : n \in 0..(MaxDevices - 1)} \cup {U32(Two15, 0)}

InRange(c) ==
    /\ c.min_width >= MinWidthFloor /\ c.min_width <= MaxWidthCeil
    /\ c.max_width >= MinWidthFloor /\ c.max_width <= MaxWidthCeil
    /\ c.min_height >= MinHeightFloor /\ c.min_height <= MaxHeightCeil
    /\ c.max_height >= MinHeightFloor /\ c.max_height <= MaxHeightCeil
    /\ c.max_buffers > 0 /\ c.max_openers > 0

\* ------------------------------------------------------------------ state

VARIABLES
    devices,   \* the driver's devices: number -> configuration
    openFds,   \* control-device descriptors the process holds open
    created,   \* per device, the add_device call that created it
    last,      \* the last call: its arguments, its environment, its outcome
    codec      \* a configuration on its way through the codec

vars == <<devices, openFds, created, last, codec>>

NoCall ==
    [op |-> "none", num |-> None, config |-> DeviceConfigDefault,
     ctl |-> "present", errno |-> FALSE,
     res |-> Err("none", ""), sent |-> FALSE, rec |-> v4l2_loopback_config_default]

CodecIdle ==
    [stage |-> "idle", config |-> DeviceConfigDefault, mem |-> Zeros(FieldLen),
     enc |-> [ok |-> FALSE, cfg |-> v4l2_loopback_config_default],
     dec |-> [ok |-> FALSE, cfg |-> DeviceConfigDefault]]

Init ==
    /\ devices = <<>>
    /\ openFds = 0
    /\ created = <<>>
    /\ last = NoCall
    /\ codec = CodecIdle

\* How an open of the control device can end: the node is there, is missing
\* or is not readable; once the process holds MaxFds descriptors the open
\* fails for lack of a free one.
CtlChoices == IF openFds < MaxFds THEN {"present", "missing", "denied"} ELSE {"broken"}

\* The ioctl is only called, and so can only fail, once the open succeeded.
ErrnoChoices(ctl) == IF ctl = "present" THEN BOOLEAN ELSE {FALSE}

Call(op, num, config, ctl, errno, r) ==
    [op |-> op, num |-> num, config |-> config, ctl |-> ctl, errno |-> errno,
     res |-> r.res, sent |-> r.sent, rec |-> r.rec]

AddDevice ==
    \E num \in {None} \cup {Some(n) : n \in DeviceNums}, config \in Configs,
       ctl \in CtlChoices :
      \E mem \in MemChoices(config), errno \in ErrnoChoices(ctl) :
        \E r \in {add_device(num, config, mem, ctl, errno, devices, openFds)} :
          /\ devices' = r.devices
          /\ openFds' = r.fds
          /\ created' = [m \in DOMAIN r.devices |->
                           IF m \in DOMAIN devices THEN created[m]
                           ELSE [config |-> config, auto |-> ~num.some]]
          /\ last' = Call("add", num, config, ctl, errno, r)
          /\ UNCHANGED codec

DeleteDevice ==
    \E device_num \in DeviceNums, ctl \in CtlChoices :
      \E errno \in ErrnoChoices(ctl) :
        \E r \in {delete_device(device_num, ctl, errno, devices, openFds)} :
          /\ devices' = r.devices
          /\ openFds' = r.fds
          /\ created' = [m \in DOMAIN r.devices |-> created[m]]
          /\ last' = Call("delete", Some(device_num), DeviceConfigDefault, ctl, errno, r)
          /\ UNCHANGED codec

QueryDevice ==
    \E device_num \in DeviceNums, ctl \in CtlChoices :
      \E errno \in ErrnoChoices(ctl) :
        \E r \in {query_device(device_num, ctl, errno, devices, openFds)} :
          /\ devices' = r.devices
          /\ openFds' = r.fds
          /\ UNCHANGED created
          /\ last' = Call("query", Some(device_num), DeviceConfigDefault, ctl, errno, r)
          /\ UNCHANGED codec

Next == AddDevice \/ DeleteDevice \/ QueryDevice

Spec == Init /\ [][Next]_vars

\* ---------------------------------------------------- the codec on its own

CodecInit ==
    /\ devices = <<>>
    /\ openFds = 0
    /\ created = <<>>
    /\ last = NoCall
    /\ codec \in {[CodecIdle EXCEPT !.stage = "input", !.config = c, !.mem = m] :
                    c \in CodecConfigs, m \in Memories}

Encode ==
    /\ codec.stage = "input"
    /\ codec' = [codec EXCEPT !.stage = "encoded", !.enc = try_into(codec.config, codec.mem)]
    /\ UNCHANGED <<devices, openFds, created, last>>

Decode ==
    /\ codec.stage = "encoded"
    /\ codec.enc.ok
    /\ codec' = [codec EXCEPT !.stage = "decoded", !.dec = try_from(codec.enc.cfg)]
    /\ UNCHANGED <<devices, openFds, created, last>>

CodecNext == Encode \/ Decode

CodecSpec == CodecInit /\ [][CodecNext]_vars

\* ----------------------------------------------------------------- claims

\* The last call's number as the driver's integer, and whether it has one.
Representable(n) == i32_try_from(n).ok
Nr(n) == i32_try_from(n).val

\* The call reached the driver: the control device opened and the ioctl call
\* itself did not fail.
Reached(call) == call.ctl = "present" /\ ~call.errno

\* A label the field can hold with its terminator.
Fits(label) == ~HasNul(label) /\ Len(label) <= FieldLen - 1

\* C1 as stated: for every number n in use, add_device(Some(n), cfg) returns
\* Err(DeviceCreationFailed) and no other variant, whatever cfg is, and the
\* driver's devices are unchanged.
C1_Original ==
    [][(/\ last'.op = "add" /\ last'.num.some
        /\ Representable(last'.num.val) /\ Nr(last'.num.val) \in DOMAIN devices
        /\ Reached(last'))
         => (last'.res.tag = "DeviceCreationFailed" /\ devices' = devices)]_vars

\* C1 amended: for every number n in use, add_device(Some(n), cfg) returns an
\* Err and leaves the driver's devices unchanged (no device appears under
\* another number); the Err is DeviceCreationFailed whenever cfg's label has
\* no null byte and the request reaches the driver.
C1_UsedNumberFails ==
    [][(/\ last'.op = "add" /\ last'.num.some
        /\ Representable(last'.num.val) /\ Nr(last'.num.val) \in DOMAIN devices)
         => (/\ last'.res.tag # "Ok"
             /\ devices' = devices
             /\ (~HasNul(last'.config.label) /\ Reached(last'))
                  => last'.res.tag = "DeviceCreationFailed")]_vars

\* C1's case: add_device(Some(n), cfg) has returned DeviceCreationFailed for
\* a number n that is in use.
C1_Witness ==
    /\ last.op = "add" /\ last.num.some
    /\ Representable(last.num.val) /\ Nr(last.num.val) \in DOMAIN devices
    /\ last.res.tag = "DeviceCreationFailed"

\* C2 as stated: for every number n with no device, delete_device(n) and
\* query_device(n) return Err(DeviceNotFound(n)) and the driver's devices
\* are unchanged.
C2_Original ==
    [][(/\ last'.op \in {"delete", "query"}
        /\ ~(Representable(last'.num.val) /\ Nr(last'.num.val) \in DOMAIN devices)
        /\ Reached(last'))
         => (/\ last'.res.tag = "DeviceNotFound"
             /\ last'.res.num = last'.num.val
             /\ devices' = devices)]_vars

\* C2 amended: for every number n with no device, delete_device(n) and
\* query_device(n) return an Err and leave the driver's devices unchanged;
\* when the control device opens and the ioctl call does not fail the Err is
\* DeviceNotFound(n) for n up to i32::MAX and Error::Other for a larger n.
C2_MissingNumberFails ==
    [][(/\ last'.op \in {"delete", "query"}
        /\ ~(Representable(last'.num.val) /\ Nr(last'.num.val) \in DOMAIN devices))
         => (/\ last'.res.tag # "Ok"
             /\ devices' = devices
             /\ Reached(last')
                  => IF Representable(last'.num.val)
                     THEN /\ last'.res.tag = "DeviceNotFound"
                          /\ last'.res.num = last'.num.val
                     ELSE last'.res.tag = "Other")]_vars

\* C2's case: delete_device(n) has returned DeviceNotFound(n) for a number
\* with no device.
C2_Witness ==
    /\ last.op = "delete"
    /\ Nr(last.num.val) \notin DOMAIN devices
    /\ last.res.tag = "DeviceNotFound" /\ last.res.num = last.num.val

\* C3 as stated: once add_device(None, cfg) has created device N from a cfg
\* with a label that fits and numbers in the driver's ranges, query_device(N)
\* returns Ok(c) with c = cfg in all eight fields as long as N exists, and
\* leaves the driver's devices unchanged.
C3_Original ==
    [][last'.op = "query"
         => (/\ devices' = devices
             /\ (/\ Reached(last') /\ Representable(last'.num.val)
                 /\ Nr(last'.num.val) \in DOMAIN created
                 /\ created[Nr(last'.num.val)].auto
                 /\ Fits(created[Nr(last'.num.val)].config.label)
                 /\ InRange(created[Nr(last'.num.val)].config))
                  => (/\ last'.res.tag = "Ok"
                      /\ last'.res.config = created[Nr(last'.num.val)].config))]_vars

\* C3 amended: the same for a cfg whose label is also not empty (the driver
\* names a device created with an empty label itself), and for a device
\* created by add_device(Some(N), cfg) as well.
C3_QueryReturnsConfig ==
    [][last'.op = "query"
         => (/\ devices' = devices
             /\ (/\ Reached(last') /\ Representable(last'.num.val)
                 /\ Nr(last'.num.val) \in DOMAIN created
                 /\ Fits(created[Nr(last'.num.val)].config.label)
                 /\ Len(created[Nr(last'.num.val)].config.label) > 0
                 /\ InRange(created[Nr(last'.num.val)].config))
                  => (/\ last'.res.tag = "Ok"
                      /\ last'.res.config = created[Nr(last'.num.val)].config))]_vars

\* C3's case: query_device(N) has returned the configuration that
\* add_device(None, cfg) created N with.
C3_Witness ==
    /\ last.op = "query" /\ last.res.tag = "Ok"
    /\ Nr(last.num.val) \in DOMAIN created
    /\ created[Nr(last.num.val)].auto
    /\ Len(created[Nr(last.num.val)].config.label) > 0
    /\ InRange(created[Nr(last.num.val)].config)
    /\ last.res.config = created[Nr(last.num.val)].config

C5_NoOpenHandle == openFds = 0

\* C6: add_device with a label longer than 31 bytes (and no null byte)
\* returns Err(LabelConversionError) and issues no add request.
C6_LongLabelRejected ==
    (last.op = "add" /\ ~HasNul(last.config.label) /\ Len(last.config.label) > FieldLen - 1)
        => (last.res.tag = "LabelConversionError" /\ ~last.sent)

\* C7: add_device with a label that contains a null byte returns
\* Err(LabelConversionError) for every num and every state of the control
\* device, without opening the control device, without issuing a request,
\* without a record, and without changing the driver's devices.
C7_NulLabelRejected ==
    [][(last'.op = "add" /\ HasNul(last'.config.label))
         => (/\ last'.res.tag = "LabelConversionError"
             /\ openFds' = openFds
             /\ ~last'.sent
             /\ last'.rec = v4l2_loopback_config_default
             /\ devices' = devices)]_vars

\* C7's case: add_device(Some(n), cfg) with a null byte in the label has
\* returned LabelConversionError while the control device was missing.
C7_Witness ==
    /\ last.op = "add" /\ HasNul(last.config.label) /\ last.num.some
    /\ last.ctl = "missing"
    /\ last.res.tag = "LabelConversionError"

\* C8: for a label of at most 31 bytes without a null byte, encoding
\* succeeds, copies the seven numbers unchanged, and decoding the record
\* gives back the configuration in all eight fields.
C8_RoundTrip ==
    Fits(codec.config.label)
        => (/\ codec.stage = "encoded"
                => (/\ codec.enc.ok
                    /\ codec.enc.cfg.min_width = codec.config.min_width
                    /\ codec.enc.cfg.max_width = codec.config.max_width
                    /\ codec.enc.cfg.min_height = codec.config.min_height
                    /\ codec.enc.cfg.max_height = codec.config.max_height
                    /\ codec.enc.cfg.max_buffers = codec.config.max_buffers
                    /\ codec.enc.cfg.max_openers = codec.config.max_openers
                    /\ codec.enc.cfg.announce_all_caps = codec.config.announce_all_caps)
            /\ codec.stage = "decoded"
                => (codec.dec.ok /\ codec.dec.cfg = codec.config))

\* C8's case: a short label, encoded next to memory that is not zero, has
\* been decoded.
C8_Witness ==
    /\ codec.stage = "decoded" /\ codec.dec.ok
    /\ Len(codec.config.label) = 1
    /\ codec.mem[1] # 0
    /\ codec.dec.cfg = codec.config

\* C9: for a label of L <= 31 bytes without a null byte, the encoded
\* card_label holds the label at 0..L-1 and 0 at L..31 whatever lies in
\* memory after the label's buffer, and output_nr, unused and debug are
\* -1, 0 and 0.
C9_ZeroFilled ==
    (codec.stage = "encoded" /\ Fits(codec.config.label))
        => (/\ codec.enc.ok
            /\ \A i \in 1..FieldLen :
                 codec.enc.cfg.card_label[i] =
                   IF i <= Len(codec.config.label) THEN codec.config.label[i] ELSE 0
            /\ codec.enc.cfg.output_nr = -1
            /\ codec.enc.cfg.unused = 0
            /\ codec.enc.cfg.debug = 0)

\* C10: add_device(Some(n), cfg) sends output_nr = n, so Ok(m) has m = n, and
\* sends -1 only for None.
C10_ExplicitNumberKept ==
    (last.op = "add" /\ last.sent)
        => (/\ last.num.some
                => (Representable(last.num.val) /\ last.rec.output_nr = Nr(last.num.val))
            /\ last.rec.output_nr = -1 => ~last.num.some
            /\ (last.num.some /\ last.res.tag = "Ok") => last.res.num = last.num.val)

====
